---- MODULE Spec2Model ----
(***************************************************************************)
(* State-machine model of AP_backend.py: the /upload, /effects, /stream    *)
(* and /download handlers, the external tools they run (yt-dlp, spotdl,    *)
(* sox through pysndfx, ffmpeg), the Supabase bucket and the background    *)
(* cleanup tasks.                                                          *)
(*                                                                         *)
(* Floats are kept in tenths (1.0 is 10, 0.5 is 5, 50.0 is 500).           *)
(* A file is a path of the working directory mapped to the kind of its     *)
(* content: "full" (a complete tool output) or "partial" (what a failed    *)
(* tool run left behind).                                                  *)
(***************************************************************************)
EXTENDS Integers, Sequences, FiniteSets, Bags, TLC

\* ------------------------------------------------------------------ bounds
\* number of /effects handlers that can be in flight at the same time
NReq == 2
\* number of spontaneous failures of external tools / of the bucket
MaxFaults == 1

\* ------------------------------------------------------- program constants
TMP_DIR == "tmp_audio"
SUPABASE_URL == "https://sb.test"
SUPABASE_BUCKET == "audio"

\* EffectsRequest defaults, in tenths
DefaultSpeed == 10
DefaultReverb == 0

\* ------------------------------------------------------------------ inputs
\* the tokens uuid4().hex[:6] is drawn from
AudioIdPool == {"a1b2c3"}

\* JSON request bodies of POST /effects: each optional field is either
\* left out ("omitted") or given as a JSON literal.  The two bodies for
\* "a1b2c3" are one (audio_id, parameters) pair supplied in two ways;
\* "d4e5f6" is an identifier no upload ever returned.
EffectsBodies ==
    { [audio_id |-> "a1b2c3", speed |-> "omitted", reverb |-> "omitted", bass_boost |-> "omitted"],
      [audio_id |-> "a1b2c3", speed |-> "1",       reverb |-> "0.0",     bass_boost |-> "false"],
      [audio_id |-> "d4e5f6", speed |-> "omitted", reverb |-> "omitted", bass_boost |-> "omitted"] }

UrlKinds == {"youtube", "spotify", "other"}

\* ------------------------------------------------------------ pure helpers
\* pydantic's coercion of a JSON number to float (tenths)
ParseFloat(lit) ==
    CASE lit = "1"    -> 10
      [] lit = "1.0"  -> 10
      [] lit = "0"    -> 0
      [] lit = "0.0"  -> 0
      [] lit = "0.5"  -> 5
      [] lit = "2"    -> 20
      [] lit = "2.0"  -> 20
      [] lit = "50"   -> 500
      [] lit = "50.0" -> 500

ParseBool(lit) == lit = "true"

\* class EffectsRequest: the parsed body, defaults filled in
EffectsRequest(body) ==
    [ audio_id   |-> body.audio_id,
      speed      |-> IF body.speed = "omitted" THEN DefaultSpeed ELSE ParseFloat(body.speed),
      reverb     |-> IF body.reverb = "omitted" THEN DefaultReverb ELSE ParseFloat(body.reverb),
      bass_boost |-> IF body.bass_boost = "omitted" THEN FALSE ELSE ParseBool(body.bass_boost) ]

Digit(d) ==
    CASE d = 0 -> "0" [] d = 1 -> "1" [] d = 2 -> "2" [] d = 3 -> "3" [] d = 4 -> "4"
      [] d = 5 -> "5" [] d = 6 -> "6" [] d = 7 -> "7" [] d = 8 -> "8" [] d = 9 -> "9"

RECURSIVE IntStr(_)
IntStr(n) == IF n < 10 THEN Digit(n) ELSE IntStr(n \div 10) \o Digit(n % 10)

\* str(float) of Python for a float with one decimal: 10 -> "1.0", 5 -> "0.5"
FloatStr(t) == IntStr(t \div 10) \o "." \o Digit(t % 10)

\* str(bool) of Python
BoolStr(b) == IF b THEN "True" ELSE "False"

\* Suffix without the sentinel branch of line 160
SuffixNoSentinel(req) ==
    FloatStr(req.speed) \o "_" \o FloatStr(req.reverb) \o "_" \o BoolStr(req.bass_boost)

\* line 160
Suffix(req) ==
    IF req.speed = 10 /\ req.reverb = 0 /\ ~req.bass_boost
    THEN "rawcopy"
    ELSE FloatStr(req.speed) \o "_" \o FloatStr(req.reverb) \o "_" \o BoolStr(req.bass_boost)

\* uuid.uuid5(uuid.NAMESPACE_DNS, name).hex[:8], tabulated for the names in use
Uuid5Hex8(name) ==
    CASE name = "a1b2c3_rawcopy"         -> "b669efb8"
      [] name = "a1b2c3_0.5_0.0_False"   -> "461d0eed"
      [] name = "a1b2c3_0.5_0.0_True"    -> "2e4470ad"
      [] name = "a1b2c3_0.5_50.0_False"  -> "51ade9ed"
      [] name = "a1b2c3_0.5_50.0_True"   -> "d94e6187"
      [] name = "a1b2c3_1.0_0.0_False"   -> "f4b8ab0a"
      [] name = "a1b2c3_1.0_0.0_True"    -> "067cdfef"
      [] name = "a1b2c3_1.0_50.0_False"  -> "090bf060"
      [] name = "a1b2c3_1.0_50.0_True"   -> "c8db84cc"
      [] name = "a1b2c3_2.0_0.0_False"   -> "b166f6ec"
      [] name = "a1b2c3_2.0_0.0_True"    -> "8a8ba6ce"
      [] name = "a1b2c3_2.0_50.0_False"  -> "9a7e6527"
      [] name = "a1b2c3_2.0_50.0_True"   -> "905c3dc5"
      [] name = "d4e5f6_rawcopy"         -> "03aaf6ad"
      [] name = "d4e5f6_0.5_0.0_False"   -> "31bd767a"
      [] name = "d4e5f6_0.5_0.0_True"    -> "059b7ea8"
      [] name = "d4e5f6_0.5_50.0_False"  -> "23edf71e"
      [] name = "d4e5f6_0.5_50.0_True"   -> "a4723529"
      [] name = "d4e5f6_1.0_0.0_False"   -> "a15bb1d0"
      [] name = "d4e5f6_1.0_0.0_True"    -> "60c92860"
      [] name = "d4e5f6_1.0_50.0_False"  -> "4f06c82a"
      [] name = "d4e5f6_1.0_50.0_True"   -> "501e71cc"
      [] name = "d4e5f6_2.0_0.0_False"   -> "b54489be"
      [] name = "d4e5f6_2.0_0.0_True"    -> "a5a224a4"
      [] name = "d4e5f6_2.0_50.0_False"  -> "be4af7fb"
      [] name = "d4e5f6_2.0_50.0_True"   -> "3d412e1b"
      [] name = "00096e_rawcopy"         -> "6375ac51"
      [] name = "00096e_0.5_0.0_False"   -> "75b1c19e"
      [] name = "00096e_0.5_0.0_True"    -> "7f53ea64"
      [] name = "00096e_0.5_50.0_False"  -> "82b9ceae"
      [] name = "00096e_0.5_50.0_True"   -> "3182d7a6"
      [] name = "00096e_1.0_0.0_False"   -> "73cb0260"
      [] name = "00096e_1.0_0.0_True"    -> "49fdb376"
      [] name = "00096e_1.0_50.0_False"  -> "584013f1"
      [] name = "00096e_1.0_50.0_True"   -> "87bc88d2"
      [] name = "00096e_2.0_0.0_False"   -> "f10e4095"
      [] name = "00096e_2.0_0.0_True"    -> "9daa8fa0"
      [] name = "00096e_2.0_50.0_False"  -> "79202b25"
      [] name = "00096e_2.0_50.0_True"   -> "3271d365"
      [] name = "0063cb_rawcopy"         -> "6375ac51"
      [] name = "0063cb_0.5_0.0_False"   -> "c37b06e1"
      [] name = "0063cb_0.5_0.0_True"    -> "35829455"
      [] name = "0063cb_0.5_50.0_False"  -> "a996a59e"
      [] name = "0063cb_0.5_50.0_True"   -> "8146f3bc"
      [] name = "0063cb_1.0_0.0_False"   -> "b6e39394"
      [] name = "0063cb_1.0_0.0_True"    -> "4b881993"
      [] name = "0063cb_1.0_50.0_False"  -> "0d153c79"
      [] name = "0063cb_1.0_50.0_True"   -> "23a915dc"
      [] name = "0063cb_2.0_0.0_False"   -> "807fcf9b"
      [] name = "0063cb_2.0_0.0_True"    -> "c359835a"
      [] name = "0063cb_2.0_50.0_False"  -> "25c17ad9"
      [] name = "0063cb_2.0_50.0_True"   -> "56aaa584"

\* line 161
EffectsId(req) == Uuid5Hex8(req.audio_id \o "_" \o Suffix(req))

\* os.path.join(TMP_DIR, f"{stem}.{ext}")
TmpPath(stem, ext) == TMP_DIR \o "/" \o stem \o "." \o ext

\* the local mp3 path passed as the destination name
ObjectNameByPath(effects_id) == TMP_DIR \o "/" \o effects_id \o ".mp3"

\* f"processed/{effects_id}.mp3"
ObjectName(effects_id) == "processed/" \o effects_id \o ".mp3"

\* the public URL of an object of the bucket
PublicUrl(name) ==
    SUPABASE_URL \o "/storage/v1/object/public/" \o SUPABASE_BUCKET \o "/" \o name

\* ---------------------------------------------------------------- files
Write(fs, p, kind) == [q \in (DOMAIN fs) \cup {p} |-> IF q = p THEN kind ELSE fs[q]]
Remove(fs, p) == [q \in (DOMAIN fs) \ {p} |-> fs[q]]
NoFiles == [q \in {} |-> "full"]

\* One run of an external tool that reads `input` and writes `output`:
\* the set of outcomes [ok, fault, files].  A missing input makes the tool
\* fail by itself; otherwise it succeeds and leaves a complete output, or
\* fails spontaneously (fault) and then leaves the output untouched or
\* partially written.
ToolOutcomes(input, output, fs) ==
    IF input \notin DOMAIN fs
    THEN { [ok |-> FALSE, fault |-> FALSE, files |-> fs] }
    ELSE { [ok |-> TRUE, fault |-> FALSE, files |-> Write(fs, output, "full")],
           [ok |-> FALSE, fault |-> TRUE, files |-> fs],
           [ok |-> FALSE, fault |-> TRUE, files |-> Write(fs, output, "partial")] }

\* convert_to_mp3: ffmpeg -y -i input ... output; HTTP 500 on a non-zero exit
ConvertToMp3(input, output, fs) == ToolOutcomes(input, output, fs)

\* apply_audio_effects: the sox chain from input to output; HTTP 500 on failure
ApplyAudioEffects(input, output, fs) == ToolOutcomes(input, output, fs)


\* download_youtube_audio: yt-dlp into <audio_id>_raw.wav.  Outcomes
\* [status, detail, faults, files, path]; the path is returned without
\* looking at the directory.
DownloadYoutubeAudio(audio_id, fs) ==
    LET output_path == TmpPath(audio_id \o "_raw", "wav") IN
    { [status |-> 403, detail |-> "Download failed: YouTube requires login",
       faults |-> 1, files |-> fs, path |-> output_path],
      [status |-> 400, detail |-> "Failed to download YouTube audio",
       faults |-> 1, files |-> fs, path |-> output_path],
      [status |-> 200, detail |-> "",
       faults |-> 0, files |-> Write(fs, output_path, "full"), path |-> output_path],
      [status |-> 200, detail |-> "",
       faults |-> 1, files |-> fs, path |-> output_path] }

\* glob.glob(os.path.join(TMP_DIR, f"{audio_id}_raw.*"))
GlobRaw(audio_id, fs) ==
    { p \in DOMAIN fs : p \in { TmpPath(audio_id \o "_raw", "wav"), TmpPath(audio_id \o "_raw", "mp3") } }

\* download_spotify_audio: spotdl into <audio_id>_raw.mp3, then the first
\* match of the glob (in the order the directory lists them)
DownloadSpotifyAudio(audio_id, fs) ==
    LET output_path == TmpPath(audio_id \o "_raw", "mp3")
        Found(fs2, n) ==
            IF GlobRaw(audio_id, fs2) = {}
            THEN { [status |-> 404, detail |-> "Spotify download failed or returned no file.",
                    faults |-> n, files |-> fs2, path |-> output_path] }
            ELSE { [status |-> 200, detail |-> "", faults |-> n, files |-> fs2, path |-> p]
                   : p \in GlobRaw(audio_id, fs2) }
    IN  { [status |-> 400, detail |-> "Failed to download Spotify audio",
           faults |-> 1, files |-> fs, path |-> output_path] }
        \cup Found(Write(fs, output_path, "full"), 0)
        \cup Found(fs, 1)

\* upload_audio after short_id(): outcomes [status, detail, missing, faults,
\* files].  missing records that the downloader exited with 0 and left no
\* <audio_id>_raw.* file (nothing in the code depends on it).
UploadOutcomes(kind, audio_id, fs) ==
    LET final_path == TmpPath(audio_id, "wav")
        Downloads == IF kind = "youtube" THEN DownloadYoutubeAudio(audio_id, fs)
                     ELSE DownloadSpotifyAudio(audio_id, fs)
        Convert(d) ==
            { [status  |-> IF c.ok THEN 200 ELSE 500,
               detail  |-> IF c.ok THEN "" ELSE "MP3 conversion error",
               missing |-> GlobRaw(audio_id, d.files) = {},
               faults  |-> d.faults + (IF c.fault THEN 1 ELSE 0),
               files   |-> c.files] : c \in ConvertToMp3(d.path, final_path, d.files) }
    IN  IF kind \notin {"youtube", "spotify"}
        THEN { [status |-> 400, detail |-> "Invalid URL: Must be YouTube or Spotify URL.",
                missing |-> FALSE, faults |-> 0, files |-> fs] }
        ELSE UNION { IF d.status = 200
                     THEN Convert(d)
                     ELSE { [status |-> d.status, detail |-> d.detail,
                             missing |-> d.status = 404,
                             faults |-> d.faults, files |-> d.files] }
                     : d \in Downloads }

\* upload_to_supabase without the check of res.error (lines 122-123): an
\* upload the bucket refused is reported as a success
UploadToSupabaseUnchecked(file_path, destination_name, req, fs, store) ==
    IF file_path \notin DOMAIN fs
    THEN { [ok |-> FALSE, fault |-> FALSE, durable |-> store, url |-> ""] }
    ELSE LET stored == Write(store, destination_name, [kind |-> fs[file_path], req |-> req]) IN
         { [ok |-> TRUE, fault |-> FALSE, durable |-> stored, url |-> PublicUrl(destination_name)],
           [ok |-> TRUE, fault |-> TRUE,  durable |-> store,  url |-> PublicUrl(destination_name)] }

\* upload_to_supabase: outcomes [ok, fault, durable, url].  Opening a
\* missing file raises inside the try block; the upload is an upsert.
UploadToSupabase(file_path, destination_name, req, fs, store) ==
    IF file_path \notin DOMAIN fs
    THEN { [ok |-> FALSE, fault |-> FALSE, durable |-> store, url |-> ""] }
    ELSE LET stored == Write(store, destination_name, [kind |-> fs[file_path], req |-> req]) IN
         { [ok |-> TRUE,  fault |-> FALSE, durable |-> stored, url |-> PublicUrl(destination_name)],
           [ok |-> FALSE, fault |-> TRUE,  durable |-> store,  url |-> ""],
           [ok |-> FALSE, fault |-> TRUE,  durable |-> stored, url |-> ""] }

\* ------------------------------------------------------------------ state
\* A handler of POST /effects in flight is a record
\*   [pc, req, effects_id, tasks]
\* pc: the line it is at ("apply", "convert", "upload"), or "tasks" once the
\* response is sent and its background tasks run; req: the parsed
\* EffectsRequest; tasks: the paths its background tasks still have to remove.
VARIABLES
    files,      \* the working directory: path -> kind of content
    durable,    \* the bucket: object name -> [kind, req]
    inflight,   \* the bag of /effects handlers in flight
    faults,     \* spontaneous failures so far
    returned,   \* the successful /effects responses so far: [req, effects_id]
    failed,     \* the effects_ids whose effect application or mp3 conversion failed
                \* and that no request has ever produced successfully
    event       \* what the last step sent back or ran

vars == <<files, durable, inflight, faults, returned, failed, event>>

NoReq == [audio_id |-> "", speed |-> DefaultSpeed, reverb |-> DefaultReverb, bass_boost |-> FALSE]
NoEvent == [op |-> "none"]

Handlers == BagToSet(inflight)
ReturnedIds == { x.effects_id : x \in returned }
Become(h, h2) == inflight' = (inflight (-) SetToBag({h})) (+) SetToBag({h2})
Leave(h) == inflight' = inflight (-) SetToBag({h})

Init ==
    /\ files = NoFiles
    /\ durable = [n \in {} |-> [kind |-> "full", req |-> NoReq]]
    /\ inflight = EmptyBag
    /\ faults = 0
    /\ returned = {}
    /\ failed = {}
    /\ event = NoEvent

\* --------------------------------------------------------------- handlers
\* POST /upload
UploadAudio ==
    \E audio_id \in AudioIdPool, kind \in UrlKinds :
      \E o \in UploadOutcomes(kind, audio_id, files) :
        /\ faults + o.faults <= MaxFaults
        /\ faults' = faults + o.faults
        /\ files' = o.files
        /\ event' = IF o.status = 200
                    THEN [op |-> "upload", status |-> 200, audio_id |-> audio_id]
                    ELSE [op |-> "upload", status |-> o.status, detail |-> o.detail,
                          missing |-> o.missing]
        /\ UNCHANGED <<durable, inflight, returned, failed>>

\* POST /effects without the existence check of lines 157-158
EffectsStartNoCheck ==
    /\ BagCardinality(inflight) < NReq
    /\ \E body \in EffectsBodies :
         LET parsed == EffectsRequest(body) IN
         /\ inflight' = inflight (+) SetToBag({ [pc |-> "apply", req |-> parsed,
                                                 effects_id |-> EffectsId(parsed),
                                                 tasks |-> <<>>] })
         /\ event' = NoEvent
    /\ UNCHANGED <<files, durable, faults, returned, failed>>

\* POST /effects, lines 156-164: the existence check and the identifiers
EffectsStart ==
    /\ BagCardinality(inflight) < NReq
    /\ \E body \in EffectsBodies :
         LET parsed == EffectsRequest(body)
             raw_audio_path == TmpPath(parsed.audio_id, "wav")
         IN  IF raw_audio_path \notin DOMAIN files
             THEN /\ event' = [op |-> "effects", status |-> 404, audio_id |-> parsed.audio_id]
                  /\ UNCHANGED inflight
             ELSE /\ inflight' = inflight (+) SetToBag({ [pc |-> "apply", req |-> parsed,
                                                          effects_id |-> EffectsId(parsed),
                                                          tasks |-> <<>>] })
                  /\ event' = NoEvent
    /\ UNCHANGED <<files, durable, faults, returned, failed>>

\* line 166 with the failure of the effect application ignored
EffectsApplyIgnoringFailure(h) ==
    /\ h.pc = "apply"
    /\ \E o \in ApplyAudioEffects(TmpPath(h.req.audio_id, "wav"), TmpPath(h.effects_id, "wav"), files) :
         /\ o.fault => faults < MaxFaults
         /\ faults' = faults + (IF o.fault THEN 1 ELSE 0)
         /\ files' = o.files
         /\ Become(h, [h EXCEPT !.pc = "convert"])
         /\ event' = NoEvent
         /\ UNCHANGED failed
    /\ UNCHANGED <<durable, returned>>

\* line 166
EffectsApply(h) ==
    /\ h.pc = "apply"
    /\ \E o \in ApplyAudioEffects(TmpPath(h.req.audio_id, "wav"), TmpPath(h.effects_id, "wav"), files) :
         /\ o.fault => faults < MaxFaults
         /\ faults' = faults + (IF o.fault THEN 1 ELSE 0)
         /\ files' = o.files
         /\ IF o.ok
            THEN /\ Become(h, [h EXCEPT !.pc = "convert"])
                 /\ event' = NoEvent
                 /\ UNCHANGED failed
            ELSE /\ Leave(h)
                 /\ failed' = IF h.effects_id \in ReturnedIds THEN failed
                               ELSE failed \cup { h.effects_id }
                 /\ event' = [op |-> "effects", status |-> 500, effects_id |-> h.effects_id,
                              at |-> "apply"]
    /\ UNCHANGED <<durable, returned>>

\* line 167
EffectsConvert(h) ==
    /\ h.pc = "convert"
    /\ \E o \in ConvertToMp3(TmpPath(h.effects_id, "wav"), TmpPath(h.effects_id, "mp3"), files) :
         /\ o.fault => faults < MaxFaults
         /\ faults' = faults + (IF o.fault THEN 1 ELSE 0)
         /\ files' = o.files
         /\ IF o.ok
            THEN /\ Become(h, [h EXCEPT !.pc = "upload"])
                 /\ event' = NoEvent
                 /\ UNCHANGED failed
            ELSE /\ Leave(h)
                 /\ failed' = IF h.effects_id \in ReturnedIds THEN failed
                               ELSE failed \cup { h.effects_id }
                 /\ event' = [op |-> "effects", status |-> 500, effects_id |-> h.effects_id,
                              at |-> "convert"]
    /\ UNCHANGED <<durable, returned>>

\* lines 169-173 without the second add_task (line 171)
EffectsUploadOneTask(h) ==
    /\ h.pc = "upload"
    /\ LET mp3_path == TmpPath(h.effects_id, "mp3")
       IN \E o \in UploadToSupabase(mp3_path, ObjectName(h.effects_id), h.req, files, durable) :
            /\ o.fault => faults < MaxFaults
            /\ faults' = faults + (IF o.fault THEN 1 ELSE 0)
            /\ durable' = o.durable
            /\ IF o.ok
               THEN /\ Become(h, [h EXCEPT !.pc = "tasks", !.tasks = <<mp3_path>>])
                    /\ returned' = returned \cup { [req |-> h.req, effects_id |-> h.effects_id] }
                    /\ failed' = failed \ { h.effects_id }
                    /\ event' = [op |-> "effects", status |-> 200, effects_id |-> h.effects_id,
                                 public_url |-> o.url]
               ELSE /\ Leave(h)
                    /\ event' = [op |-> "effects", status |-> 500, effects_id |-> h.effects_id,
                                 at |-> "upload"]
                    /\ UNCHANGED <<returned, failed>>
    /\ UNCHANGED files

\* lines 169-173: the upload, the two background tasks, the response
EffectsUpload(h) ==
    /\ h.pc = "upload"
    /\ LET mp3_path == TmpPath(h.effects_id, "mp3")
           effected_wav_path == TmpPath(h.effects_id, "wav")
       IN \E o \in UploadToSupabase(mp3_path, ObjectName(h.effects_id), h.req, files, durable) :
            /\ o.fault => faults < MaxFaults
            /\ faults' = faults + (IF o.fault THEN 1 ELSE 0)
            /\ durable' = o.durable
            /\ IF o.ok
               THEN /\ Become(h, [h EXCEPT !.pc = "tasks",
                                           !.tasks = <<mp3_path, effected_wav_path>>])
                    /\ returned' = returned \cup { [req |-> h.req, effects_id |-> h.effects_id] }
                    /\ failed' = failed \ { h.effects_id }
                    /\ event' = [op |-> "effects", status |-> 200, effects_id |-> h.effects_id,
                                 public_url |-> o.url]
               ELSE /\ Leave(h)
                    /\ event' = [op |-> "effects", status |-> 500, effects_id |-> h.effects_id,
                                 at |-> "upload"]
                    /\ UNCHANGED <<returned, failed>>
    /\ UNCHANGED files

\* a cleanup task that is handed the source file of the request
CleanupFileOfSource(h) ==
    /\ h.pc = "tasks"
    /\ h.tasks # <<>>
    /\ files' = Remove(files, TmpPath(h.req.audio_id, "wav"))
    /\ event' = [op |-> "cleanup", path |-> TmpPath(h.req.audio_id, "wav")]
    /\ IF Len(h.tasks) = 1
       THEN Leave(h)
       ELSE Become(h, [h EXCEPT !.tasks = Tail(h.tasks)])
    /\ UNCHANGED <<durable, faults, returned, failed>>

\* cleanup_file, run by the background tasks of a finished request in the
\* order they were added
CleanupFile(h) ==
    /\ h.pc = "tasks"
    /\ h.tasks # <<>>
    /\ files' = Remove(files, Head(h.tasks))
    /\ event' = [op |-> "cleanup", path |-> Head(h.tasks)]
    /\ IF Len(h.tasks) = 1
       THEN Leave(h)
       ELSE Become(h, [h EXCEPT !.tasks = Tail(h.tasks)])
    /\ UNCHANGED <<durable, faults, returned, failed>>

\* the identifiers GET /stream and GET /download are called with: the
\* variant of "a1b2c3" the bodies above ask for and an identifier nothing
\* ever produced
RetrievalIds == { "b669efb8", "deadbeef" }

\* GET /stream/{effects_id} looking for the .wav instead of the .mp3
StreamEffectsWavCheck ==
    \E effects_id \in RetrievalIds :
      LET file_path == TmpPath(effects_id, "mp3") IN
      /\ event' = IF TmpPath(effects_id, "wav") \in DOMAIN files /\ file_path \in DOMAIN files
                  THEN [op |-> "stream", status |-> 200, effects_id |-> effects_id,
                        file |-> file_path, kind |-> files[file_path]]
                  ELSE [op |-> "stream", status |-> 200, effects_id |-> effects_id,
                        url |-> SUPABASE_URL \o "/storage/v1/object/public/" \o SUPABASE_BUCKET
                                \o "/processed/" \o effects_id \o ".mp3"]
      /\ UNCHANGED <<files, durable, inflight, faults, returned, failed>>

\* GET /stream/{effects_id}
StreamEffects ==
    \E effects_id \in RetrievalIds :
      LET file_path == TmpPath(effects_id, "mp3") IN
      /\ event' = IF file_path \in DOMAIN files
                  THEN [op |-> "stream", status |-> 200, effects_id |-> effects_id,
                        file |-> file_path, kind |-> files[file_path]]
                  ELSE [op |-> "stream", status |-> 200, effects_id |-> effects_id,
                        url |-> SUPABASE_URL \o "/storage/v1/object/public/" \o SUPABASE_BUCKET
                                \o "/processed/" \o effects_id \o ".mp3"]
      /\ UNCHANGED <<files, durable, inflight, faults, returned, failed>>

\* GET /download/{effects_id}
DownloadEffects ==
    \E effects_id \in RetrievalIds :
      LET wav_path == TmpPath(effects_id, "wav")
          mp3_path == TmpPath(effects_id, "mp3")
      IN  IF wav_path \notin DOMAIN files
          THEN /\ event' = [op |-> "download", status |-> 404, effects_id |-> effects_id]
               /\ UNCHANGED <<files, durable, inflight, faults, returned, failed>>
          ELSE \E o \in ConvertToMp3(wav_path, mp3_path, files) :
                 /\ o.fault => faults < MaxFaults
                 /\ faults' = faults + (IF o.fault THEN 1 ELSE 0)
                 /\ files' = o.files
                 /\ event' = IF o.ok
                             THEN [op |-> "download", status |-> 200, effects_id |-> effects_id,
                                   file |-> mp3_path, kind |-> o.files[mp3_path]]
                             ELSE [op |-> "download", status |-> 500, effects_id |-> effects_id]
                 /\ UNCHANGED <<durable, inflight, returned, failed>>

Next ==
    \/ UploadAudio
    \/ EffectsStart
    \/ \E h \in Handlers : EffectsApply(h)
    \/ \E h \in Handlers : EffectsConvert(h)
    \/ \E h \in Handlers : EffectsUpload(h)
    \/ \E h \in Handlers : CleanupFile(h)
    \/ StreamEffects
    \/ DownloadEffects

Spec == Init /\ [][Next]_vars

\* The background tasks of a response that was sent are run by the server
\* (starlette runs them right after the response): a pending cleanup_file
\* is not postponed for ever.
FairSpec == Init /\ [][Next]_vars /\ WF_vars(\E h \in Handlers : CleanupFile(h))

\* ------------------------------------------------- identifier derivation
\* Lines 42-46 and 160-161 on their own: a request body is drawn, then
\* parsed and turned into its effects_id.
JsonSpeeds == {"omitted", "1", "1.0", "0.5", "2"}
JsonReverbs == {"omitted", "0", "0.0", "50.0"}
JsonBools == {"omitted", "false", "true"}

\* the audio_ids of the bodies: four values of uuid4().hex[:6]
IdAudioIds == {"a1b2c3", "d4e5f6", "00096e", "0063cb"}

IdBodies ==
    [audio_id : IdAudioIds, speed : JsonSpeeds, reverb : JsonReverbs,
     bass_boost : JsonBools]

IdInit ==
    /\ files = NoFiles
    /\ durable = [n \in {} |-> [kind |-> "full", req |-> NoReq]]
    /\ inflight = EmptyBag
    /\ faults = 0
    /\ returned = {}
    /\ failed = {}
    /\ \E body \in IdBodies : event = [op |-> "body", body |-> body]

DeriveId ==
    /\ event.op = "body"
    /\ event' = [op |-> "derived", body |-> event.body,
                 effects_id |-> EffectsId(EffectsRequest(event.body))]
    /\ UNCHANGED <<files, durable, inflight, faults, returned, failed>>

IdNext == DeriveId

SpecIds == IdInit /\ [][IdNext]_vars

\* ------------------------------------------------------ the effect chain
\* Lines 99-108 on their own: the parameters of a request are drawn, then
\* the sox chain is put together.  A stage is [fx, arg]: the tempo factor
\* and the reverberance in tenths, the bass gain in dB, the low-pass
\* frequency in Hz.

\* the chain with the low-pass put in front of the optional stages
AudioEffectsChainLowpassFirst(speed, reverb, bass_boost) ==
    <<[fx |-> "lowpass", arg |-> 3000]>>
    \o (IF speed # 10 THEN <<[fx |-> "tempo", arg |-> speed]>> ELSE <<>>)
    \o (IF reverb > 0 THEN <<[fx |-> "reverb", arg |-> reverb]>> ELSE <<>>)
    \o (IF bass_boost THEN <<[fx |-> "bass", arg |-> 10]>> ELSE <<>>)

\* fx = AudioEffectsChain() ... fx = fx.lowpass(3000)
AudioEffectsChain(speed, reverb, bass_boost) ==
    (IF speed # 10 THEN <<[fx |-> "tempo", arg |-> speed]>> ELSE <<>>)
    \o (IF reverb > 0 THEN <<[fx |-> "reverb", arg |-> reverb]>> ELSE <<>>)
    \o (IF bass_boost THEN <<[fx |-> "bass", arg |-> 10]>> ELSE <<>>)
    \o <<[fx |-> "lowpass", arg |-> 3000]>>

\* parsed values of speed and reverb: 0.3 .. 4.0 and -10.0 .. 100.0
FxSpeeds == {3, 5, 8, 10, 15, 20, 40}
FxReverbs == {-100, 0, 5, 500, 1000}

FxInit ==
    /\ files = NoFiles
    /\ durable = [n \in {} |-> [kind |-> "full", req |-> NoReq]]
    /\ inflight = EmptyBag
    /\ faults = 0
    /\ returned = {}
    /\ failed = {}
    /\ \E speed \in FxSpeeds, reverb \in FxReverbs, bass_boost \in BOOLEAN :
         event = [op |-> "params", speed |-> speed, reverb |-> reverb,
                  bass_boost |-> bass_boost]

CompileChain ==
    /\ event.op = "params"
    /\ event' = [op |-> "chain", speed |-> event.speed, reverb |-> event.reverb,
                 bass_boost |-> event.bass_boost,
                 chain |-> AudioEffectsChain(event.speed, event.reverb, event.bass_boost)]
    /\ UNCHANGED <<files, durable, inflight, faults, returned, failed>>

FxNext == CompileChain

SpecFx == FxInit /\ [][FxNext]_vars

\* ================================================================= claims
LocalMp3(e) == "tmp_audio/" \o e \o ".mp3"
LocalWav(e) == "tmp_audio/" \o e \o ".wav"
Processed(e) == "processed/" \o e \o ".mp3"
DurableUrl(e) == "https://sb.test/storage/v1/object/public/audio/processed/" \o e \o ".mp3"

\* C1: idempotence of POST /effects.  Every successful response for one
\* (audio_id, speed, reverb, bass_boost) carries the same effects_id, and
\* the objects the bucket holds for that pair are exactly the one object
\* processed/<effects_id>.mp3, however many requests for the pair (and
\* other requests and cleanup tasks) have run.
IdempotentEffects ==
    /\ \A x, y \in returned : x.req = y.req => x.effects_id = y.effects_id
    /\ \A x \in returned :
         { n \in DOMAIN durable : durable[n].req = x.req } = { Processed(x.effects_id) }

\* two requests for one pair have both succeeded (the background tasks of
\* both are still pending) and the bucket holds the object
TwoSuccessesOfOnePair ==
    \E h1 \in Handlers, h2 \in Handlers :
        /\ h1.pc = "tasks" /\ h2.pc = "tasks" /\ h1.req = h2.req
        /\ (h1 # h2 \/ CopiesIn(h1, inflight) >= 2)
        /\ Processed(h1.effects_id) \in DOMAIN durable

\* C2: cleanup ordering.  A cleanup_file step never removes a file that a
\* request in flight has written and not yet uploaded: a handler at
\* "convert" has written <effects_id>.wav, a handler at "upload" has written
\* <effects_id>.wav and <effects_id>.mp3, and neither has had its upload
\* confirmed.
WrittenUnplaced(path) ==
    \E h \in Handlers :
        \/ h.pc \in {"convert", "upload"} /\ path = LocalWav(h.effects_id)
        \/ h.pc = "upload" /\ path = LocalMp3(h.effects_id)

CleanupOnlyAfterOwnUpload ==
    [][ (event'.op = "cleanup" /\ event'.path \in DOMAIN files /\ event'.path \notin DOMAIN files')
        => ~WrittenUnplaced(event'.path) ]_vars

\* C3: concurrent requests for one pair are safe.  As long as no external
\* tool and no upload has failed on its own, no POST /effects request for
\* an existing source ends with an error.
ConcurrentSamePairSafe ==
    (event.op = "effects" /\ faults = 0) => event.status # 500

\* C4: no partial artifacts are exposed.  After the effect application or
\* the mp3 conversion failed for an effects_id that was never produced
\* successfully, GET /stream and GET /download for that id return neither
\* audio bytes nor a reference.
NoPartialArtifactExposed ==
    (event.op \in {"stream", "download"} /\ event.effects_id \in failed)
        => event.status # 200

\* C5: success implies a reachable copy.  For every successful response the
\* bucket holds processed/<effects_id>.mp3 from the moment of the response
\* on, and what GET /stream/<effects_id> answers points at a copy that
\* exists: the local file it serves, or the object its URL names.
SuccessHasReachableCopy ==
    \A x \in returned :
        /\ Processed(x.effects_id) \in DOMAIN durable
        /\ (event.op = "effects" /\ event.status = 200 /\ event.effects_id = x.effects_id)
              => event.public_url = DurableUrl(x.effects_id)
        /\ (event.op = "stream" /\ event.effects_id = x.effects_id)
              => IF "file" \in DOMAIN event
                 THEN event.file \in DOMAIN files
                 ELSE event.url = DurableUrl(x.effects_id)

\* a variant was produced, its local copies are gone, the bucket has it
DurableOnlyCopy ==
    \E x \in returned :
        /\ LocalMp3(x.effects_id) \notin DOMAIN files
        /\ LocalWav(x.effects_id) \notin DOMAIN files
        /\ Processed(x.effects_id) \in DOMAIN durable
        /\ event.op = "stream" /\ event.effects_id = x.effects_id

\* C6: local-first retrieval.  GET /stream/<effects_id> answers with the
\* local file whenever <effects_id>.mp3 is in the working directory and
\* with {url: .../processed/<effects_id>.mp3} exactly when it is not; the
\* file is there when POST /effects answers, and only a cleanup task takes
\* it away, which it does.
StreamLocalFirst ==
    [][ /\ event'.op = "stream" =>
             IF LocalMp3(event'.effects_id) \in DOMAIN files
             THEN /\ "file" \in DOMAIN event'
                  /\ event'.file = LocalMp3(event'.effects_id)
             ELSE /\ "url" \in DOMAIN event'
                  /\ event'.url = DurableUrl(event'.effects_id)
        /\ (event'.op = "effects" /\ event'.status = 200) =>
             LocalMp3(event'.effects_id) \in DOMAIN files'
        /\ \A e \in RetrievalIds :
             (LocalMp3(e) \in DOMAIN files /\ LocalMp3(e) \notin DOMAIN files')
                => (event'.op = "cleanup" /\ event'.path = LocalMp3(e))
        /\ event'.op = "cleanup" => event'.path \notin DOMAIN files'
      ]_vars

\* GET /stream answers with the URL for a variant that was produced while
\* its .wav is still there: the cleanup of the .mp3 has run, the other not
StreamAfterMp3Cleanup ==
    /\ event.op = "stream" /\ "url" \in DOMAIN event
    /\ event.effects_id \in ReturnedIds
    /\ LocalWav(event.effects_id) \in DOMAIN files

\* C7: NotFound for unknown ids.  GET /stream/<id> for an id that has no
\* local file and that no upload ever placed in the bucket answers 404.
UnknownIdNotFound ==
    ( /\ event.op = "stream"
      /\ LocalMp3(event.effects_id) \notin DOMAIN files
      /\ Processed(event.effects_id) \notin DOMAIN durable
      /\ event.effects_id \notin ReturnedIds )
        => event.status = 404

\* C8: GET /download/<effects_id> for a variant POST /effects produced
\* answers 404 only when the source asset <audio_id>.wav is gone: while
\* the complete source file is there, the answer is not 404.
SourceOf(x) == "tmp_audio/" \o x.req.audio_id \o ".wav"

DownloadWhileSourcePresent ==
    \A x \in returned :
        ( /\ event.op = "download" /\ event.effects_id = x.effects_id
          /\ SourceOf(x) \in DOMAIN files /\ files[SourceOf(x)] = "full" )
            => event.status # 404

\* C9: POST /effects for an audio_id without <audio_id>.wav answers 404 and
\* changes nothing: no file, no object, no handler left in flight (so no
\* tool run, no upload, no background task), and a handler only ever gets
\* past the check when the source file exists.
UnknownAudioRejected ==
    [][ /\ (event'.op = "effects" /\ event'.status = 404) =>
             /\ ("tmp_audio/" \o event'.audio_id \o ".wav") \notin DOMAIN files
             /\ UNCHANGED <<files, durable, inflight, faults, returned, failed>>
        /\ \A h \in BagToSet(inflight') :
             (h.pc = "apply" /\ CopiesIn(h, inflight') > CopiesIn(h, inflight))
                => ("tmp_audio/" \o h.req.audio_id \o ".wav") \in DOMAIN files
      ]_vars

\* a 404 of POST /effects while the working directory and the bucket are
\* not empty and another request is in flight
RejectedWhileBusy ==
    /\ event.op = "effects" /\ event.status = 404
    /\ DOMAIN durable # {}
    /\ Handlers # {}

\* C10: the no-op sentinel.  A body whose three parameters are each left
\* out or given with the default value (speed 1 or 1.0, reverb 0 or 0.0,
\* bass_boost false) gets the effects_id of "<audio_id>_rawcopy".
IsNoopBody(body) ==
    /\ body.speed \in {"omitted", "1", "1.0"}
    /\ body.reverb \in {"omitted", "0", "0.0"}
    /\ body.bass_boost \in {"omitted", "false"}

SentinelId(audio_id) ==
    CASE audio_id = "a1b2c3" -> "b669efb8"
      [] audio_id = "d4e5f6" -> "03aaf6ad"
      [] audio_id = "00096e" -> "6375ac51"
      [] audio_id = "0063cb" -> "6375ac51"

NoopSentinel ==
    (event.op = "derived" /\ IsNoopBody(event.body))
        => event.effects_id = SentinelId(event.body.audio_id)

\* the sentinel id derived for a body that mixes omitted and explicit defaults
MixedDefaultsDerived ==
    /\ event.op = "derived"
    /\ event.body.speed = "1" /\ event.body.reverb = "omitted" /\ event.body.bass_boost = "false"
    /\ event.effects_id = SentinelId(event.body.audio_id)

\* C11: variant ids do not collide across sources.  The effects_id derived
\* for a no-op body of one audio_id differs from the effects_id the same
\* derivation gives the no-op body of every other audio_id.
NoopIdsDistinctAcrossSources ==
    (event.op = "derived" /\ IsNoopBody(event.body))
        => \A other \in IdAudioIds \ { event.body.audio_id } :
              EffectsId(EffectsRequest([event.body EXCEPT !.audio_id = other]))
                  # event.effects_id

\* C12: repeated requests are cache hits.  A request that arrives after a
\* successful response for the same (audio_id, speed, reverb, bass_boost)
\* is answered from the variant already produced: it is not put at line
\* 166, from where effect application, mp3 conversion and upload are run.
RepeatedRequestIsCacheHit ==
    [][ \A h \in BagToSet(inflight') :
          (h.pc = "apply" /\ CopiesIn(h, inflight') > CopiesIn(h, inflight))
              => h.req \notin { x.req : x \in returned } ]_vars

\* C13: source assets are retained.  When POST /upload answers with an
\* audio_id the file <audio_id>.wav exists, no step ever takes a source
\* file out of the working directory, and what a cleanup task removes is
\* never a source file or a raw download.
SourceWav(a) == "tmp_audio/" \o a \o ".wav"

SourceRetained ==
    [][ /\ (event'.op = "upload" /\ event'.status = 200)
             => SourceWav(event'.audio_id) \in DOMAIN files'
        /\ \A a \in AudioIdPool :
             SourceWav(a) \in DOMAIN files => SourceWav(a) \in DOMAIN files'
        /\ event'.op = "cleanup" =>
             \A a \in AudioIdPool :
                 event'.path \notin { SourceWav(a), "tmp_audio/" \o a \o "_raw.wav",
                                      "tmp_audio/" \o a \o "_raw.mp3" }
      ]_vars

\* both cleanup tasks of a produced variant have run, the variant's local
\* files are gone and the complete source file is still there
SourceLeftAfterCleanup ==
    /\ event.op = "cleanup"
    /\ \E x \in returned :
         /\ LocalMp3(x.effects_id) \notin DOMAIN files
         /\ LocalWav(x.effects_id) \notin DOMAIN files
         /\ SourceWav(x.req.audio_id) \in DOMAIN files
         /\ files[SourceWav(x.req.audio_id)] = "full"
    /\ Handlers = {}

\* C14: POST /upload is isolated.  A successful upload adds exactly one
\* file to the working directory and leaves every file that was there
\* before as it was.
UploadWritesOneFile ==
    [][ (event'.op = "upload" /\ event'.status = 200)
          => /\ Cardinality(DOMAIN files' \ DOMAIN files) = 1
             /\ \A p \in DOMAIN files : p \in DOMAIN files' /\ files'[p] = files[p]
      ]_vars

\* C15: a download without an artifact.  When the downloader of either
\* origin exits successfully and no <audio_id>_raw file is there, POST
\* /upload fails with the error that says so (the 404 of the missing
\* artifact) and not with the error of a later step of the pipeline.
DownloadArtifactMissing ==
    (event.op = "upload" /\ event.status # 200 /\ event.missing)
        => (event.status = 404 /\ event.detail # "MP3 conversion error")

\* C16: a failed upload keeps the local copy.  When line 169 fails the
\* request answers 500, no background task is scheduled and nothing is
\* removed, and <effects_id>.mp3 is in the working directory afterwards, so
\* that GET /stream/<effects_id> has the local file to serve.
UploadFailureKeepsLocalCopy ==
    [][ (event'.op = "effects" /\ event'.status = 500 /\ event'.at = "upload")
          => /\ files' = files
             /\ BagCardinality(inflight') = BagCardinality(inflight) - 1
             /\ \A h \in BagToSet(inflight') :
                  h.pc = "tasks" => CopiesIn(h, inflight') <= CopiesIn(h, inflight)
             /\ LocalMp3(event'.effects_id) \in DOMAIN files'
      ]_vars

\* C17: the order of the effect chain.  The stages of the compiled chain
\* are taken from (tempo, reverb, bass, lowpass) in that order, each at
\* most once: tempo is there exactly when speed is not 1.0, reverb exactly
\* when reverb > 0, bass exactly when bass_boost is set, and the low-pass
\* is always there and is the last stage.
StageRank(fx) ==
    CASE fx = "tempo" -> 1 [] fx = "reverb" -> 2 [] fx = "bass" -> 3 [] fx = "lowpass" -> 4

HasStage(chain, fx) == \E i \in 1..Len(chain) : chain[i].fx = fx

ChainInCanonicalOrder ==
    event.op = "chain" =>
        LET c == event.chain IN
        /\ \A i \in 1..Len(c) : c[i].fx \in {"tempo", "reverb", "bass", "lowpass"}
        /\ \A i, j \in 1..Len(c) : i < j => StageRank(c[i].fx) < StageRank(c[j].fx)
        /\ HasStage(c, "tempo") <=> event.speed # 10
        /\ HasStage(c, "reverb") <=> event.reverb > 0
        /\ HasStage(c, "bass") <=> event.bass_boost
        /\ Len(c) >= 1 /\ c[Len(c)].fx = "lowpass"

\* a chain with all four stages compiled
FullChainCompiled ==
    /\ event.op = "chain"
    /\ event.speed = 5 /\ event.reverb = 500 /\ event.bass_boost
    /\ Len(event.chain) = 4

\* C18: tempo decomposition.  A speed above what one tempo stage takes
\* (2.0) is compiled into two or more tempo stages, each of a factor of at
\* most 2.0, whose factors multiply to the requested speed.
RECURSIVE TempoProduct(_)
TempoProduct(stages) ==
    IF stages = <<>> THEN 10 ELSE (Head(stages).arg * TempoProduct(Tail(stages))) \div 10

IsTempo(stage) == stage.fx = "tempo"

TempoDecomposed ==
    (event.op = "chain" /\ event.speed > 20) =>
        LET t == SelectSeq(event.chain, IsTempo) IN
        /\ Len(t) >= 2
        /\ \A i \in 1..Len(t) : t[i].arg <= 20
        /\ TempoProduct(t) = event.speed

\* C19: cleanup completes.  After a successful POST /effects whose request
\* is the only one in flight for its effects_id, the background tasks
\* lead to a state in which neither <effects_id>.mp3 nor <effects_id>.wav
\* is in the working directory, unless another POST /effects or a GET
\* /download for the same effects_id comes in first; and these two files
\* only ever come into being by the steps of such requests, so that they
\* stay away once both tasks have run.
HandlersOf(e) == { h \in Handlers : h.effects_id = e }

SucceededAlone(e) ==
    /\ event.op = "effects" /\ event.status = 200 /\ event.effects_id = e
    /\ \E h \in Handlers : HandlersOf(e) = {h} /\ h.pc = "tasks" /\ CopiesIn(h, inflight) = 1

LocalCopiesGone(e) ==
    LocalMp3(e) \notin DOMAIN files /\ LocalWav(e) \notin DOMAIN files

OtherRequestFor(e) ==
    \/ \E h \in HandlersOf(e) : h.pc # "tasks"
    \/ event.op = "download" /\ event.effects_id = e

CleanupCompletes ==
    /\ \A e \in RetrievalIds : SucceededAlone(e) ~> (LocalCopiesGone(e) \/ OtherRequestFor(e))
    /\ [][ \A e \in RetrievalIds :
             /\ (LocalWav(e) \notin DOMAIN files /\ LocalWav(e) \in DOMAIN files')
                  => \E h \in HandlersOf(e) :
                         h.pc = "apply" /\ CopiesIn(h, inflight') < CopiesIn(h, inflight)
             /\ (LocalMp3(e) \notin DOMAIN files /\ LocalMp3(e) \in DOMAIN files')
                  => \/ event'.op = "download" /\ event'.effects_id = e
                     \/ \E h \in HandlersOf(e) :
                            h.pc = "convert" /\ CopiesIn(h, inflight') < CopiesIn(h, inflight)
             /\ (event'.op = "cleanup" /\ event'.path \in {LocalMp3(e), LocalWav(e)})
                  => event'.path \notin DOMAIN files'
       ]_vars

\* the second cleanup task of the only request of a variant has just run
\* and both local files of the variant are gone
BothTasksRan ==
    \E e \in ReturnedIds :
        /\ event.op = "cleanup" /\ event.path = LocalWav(e)
        /\ HandlersOf(e) = {}
        /\ LocalCopiesGone(e)

\* C20: the order of the steps of POST /effects.  The bucket is written
\* only by a request at line 169, which a request reaches only through its
\* own successful effect application and then its own successful mp3
\* conversion; the cleanup tasks are scheduled only by the step whose
\* upload succeeded; and a step that fails ends its request with a 500:
\* the request is gone and no later step of it is performed.
Advanced(h) == CopiesIn(h, inflight') > CopiesIn(h, inflight)
Stepped(h) == CopiesIn(h, inflight') < CopiesIn(h, inflight)

StepsInOrder ==
    [][ /\ durable' # durable => \E h \in Handlers : h.pc = "upload" /\ Stepped(h)
        /\ \A h \in BagToSet(inflight') :
             /\ (Advanced(h) /\ h.pc = "convert") =>
                   /\ [h EXCEPT !.pc = "apply"] \in Handlers /\ Stepped([h EXCEPT !.pc = "apply"])
                   /\ LocalWav(h.effects_id) \in DOMAIN files'
                   /\ files'[LocalWav(h.effects_id)] = "full"
             /\ (Advanced(h) /\ h.pc = "upload") =>
                   /\ [h EXCEPT !.pc = "convert"] \in Handlers /\ Stepped([h EXCEPT !.pc = "convert"])
                   /\ LocalMp3(h.effects_id) \in DOMAIN files'
                   /\ files'[LocalMp3(h.effects_id)] = "full"
             /\ (Advanced(h) /\ h.pc = "tasks" /\ Len(h.tasks) = 2) =>
                   /\ \E g \in Handlers :
                          /\ g.pc = "upload" /\ g.req = h.req /\ g.effects_id = h.effects_id
                          /\ Stepped(g)
                   /\ event'.op = "effects" /\ event'.status = 200
                   /\ event'.effects_id = h.effects_id
                   /\ Processed(h.effects_id) \in DOMAIN durable'
             /\ (Advanced(h) /\ h.pc = "tasks" /\ Len(h.tasks) < 2) =>
                   /\ event'.op = "cleanup"
                   /\ \E g \in Handlers : g.pc = "tasks" /\ Tail(g.tasks) = h.tasks /\ Stepped(g)
        /\ (event'.op = "effects" /\ event'.status = 500) =>
             /\ BagCardinality(inflight') = BagCardinality(inflight) - 1
             /\ \A h \in BagToSet(inflight') : ~Advanced(h)
             /\ event'.at \in {"apply", "convert"} => durable' = durable
             /\ event'.at = "apply" => LocalMp3(event'.effects_id) \notin DOMAIN files' \ DOMAIN files
      ]_vars

\* the mp3 conversion of the only request has failed after its effect
\* application succeeded: the request is gone and the bucket is empty
StoppedAtConversion ==
    /\ event.op = "effects" /\ event.status = 500 /\ event.at = "convert"
    /\ LocalWav(event.effects_id) \in DOMAIN files
    /\ Handlers = {}
    /\ DOMAIN durable = {}

====
